---- MODULE Spec2Model ----
(***************************************************************************)
(* Unithree: the per-frame entity/plugin scheduler of                      *)
(* packages/library/src/index.ts and the Entity lifecycle flags of         *)
(* packages/core/src/Entity.ts.                                            *)
(*                                                                         *)
(* Objects are numbered: 0 is the scene root, 1..NumObj are the objects    *)
(* user code constructed; object 2 is a plain Object3D, the others are     *)
(* Entity instances.                                                       *)
(* The live-entity table and the plugin table are JavaScript Maps: they    *)
(* are modelled as the sequence of their keys in insertion order.          *)
(*                                                                         *)
(* A tick (animationLoop) is split at every callback it makes, because a   *)
(* callback is user code that may call back into the API (destroy, the     *)
(* enabled setter, instantiateObject) in the middle of a pass.  Between    *)
(* display frames the host application calls the API directly.             *)
(* Callbacks return normally and do not call start().                      *)
(***************************************************************************)
EXTENDS Integers, Sequences, FiniteSets, TLC

\* ---------------------------------------------------------------- bounds
NumObj == 3
NumPlug == 3
MaxTicks == 3
MaxCalls == 2
MaxControls == 4
MaxChains == 2
FrameTicks == 4
FrameCalls == 1
FrameControls == 3
HostTicks == 3
HostCalls == 1
HostControls == 5
MainPool == 1
PluginPool == 3
PluginTicks == 2
PluginCalls == 1
PluginControls == 5
MaxExtras == 1
NumComp == 1
EntityTicks == 2
EntityCalls == 2
EntityControls == 3
EntityExtras == 1
NumKeys == 2
InputTicks == 3
InputCalls == 1
InputControls == 3
InputExtras == 2
NumButtons == 1
NumTouch == 2
MaxPos == 2
ReuseTicks == 2
ReuseCalls == 1
ReuseControls == 6
ReapTicks == 2
ReapCalls == 3
ReapControls == 3
ThrowTicks == 3
ThrowCalls == 1
ThrowControls == 3
PausedTicks == 2
PausedCalls == 1
PausedControls == 3
Base == 5000000
Near == 9
Far == 100

\* ------------------------------------------------------------- universe
Scene == 0
Obj == 1..NumObj
Ent == Obj \ {2}
Node == {Scene} \cup Obj
Plug == 1..NumPlug

\* child instanceof Entity
IsEntity(o) == o \in Ent

\* plugin.constructor.name: plugins 1 and 2 are instances of one class, 3 and 4 of another
TypeName(p) == (p + 1) \div 2

\* plugin.executionType, given to the constructor: plugin 3 is not an Always plugin
executionType(p) == IF p = 3 THEN "InitializeOnly" ELSE "Always"

TypeNames == {TypeName(p) : p \in Plug}

\* the null that getPluginByTypeName returns
NoPlugin == 0

\* plugins of the first class are instances of Input
InputName == 1

IsInput(p) == TypeName(p) = InputName

\* the keys of the keyboard, by event.key
Keys == 1..NumKeys

\* the buttons of the connected gamepad, by index
Buttons == 1..NumButtons

\* the touch pointers, by pointerId
Touches == 1..NumTouch

\* page coordinates of the mouse pointer, along one axis
Pos == 0..MaxPos

\* Numbers of the math utilities are counted in millionths: 1e-6 is 1, EPSILON (1e-5)
\* is 10, and Base is the 5 of the unit tests.
EPSILON == 10

\* differences below, at and above the threshold, on both sides
Offsets == {0, 1, Near, EPSILON, Far, 0 - 1, 0 - Near, 0 - EPSILON, 0 - Far}

Nums == {Base + d : d \in Offsets}

\* the Component objects user code constructed
Comp == 1..NumComp

\* the null a Component's entity field may hold
NoEntity == 0

VARIABLES
  renderer,        \* _renderer is set (TRUE) or null (FALSE)
  camera,          \* _camera is set (TRUE) or null (FALSE)
  animationLoopId, \* "undefined" as declared, "id" holding a request id, or "null"
  pending,         \* requestAnimationFrame callbacks queued for the next frame
  due,             \* callbacks of the current display frame still to run
  entities,        \* the live-entity table: its keys in insertion order
  plugins,         \* the plugin table: its plugin instances in key insertion order
  children,        \* Object3D.children of every node
  enabled,         \* Entity.isEnabled
  didStart,        \* Entity.didStart
  isDead,          \* Entity._isDead
  initialized,     \* ProcessorPlugin.initialized
  pEnabled,        \* ProcessorPlugin.enabled
  pc,              \* the pass animationLoop is in, "idle" between ticks
  i,               \* position of the running forEach in its Map
  toDelete,        \* animationLoop's toDelete array
  ev,              \* the call the scheduler made in the last step
  api,             \* the API call user code made in the last step, and its result
  ticksLeft,       \* ticks the exploration may still begin
  callsLeft,       \* API calls user code may still make
  controlsLeft,    \* initialize, start, stop, dispose and addPlugins calls still to make
  seen,            \* the kinds of call the scheduler made in this tick before ev
  startCount,      \* onStart calls received, per entity
  frameUpd,        \* onUpdate calls received in the current display frame
  frameLate,       \* onLateUpdate calls received in the current display frame
  steady,          \* entities tracked, enabled and alive since the frame began
  gone,            \* entities a reap pass removed and nobody registered again
  reaped,          \* entities the last reap pass removed (with their nested entities)
  killedIn,        \* where in the current tick destroy() was called, per entity:
                   \* "start" up to the entity's own visit, "startPassed" after it
  deadAtBegin,     \* entities whose isDead was true when the current tick began
  gotOnDestroy,    \* entities that received onDestroy
  owed,            \* entities tracked, enabled and unstarted since the start pass began
  skipped,         \* entities a start pass visited while disabled and unstarted
  loop,            \* the last of start(), stop() and dispose() to take effect:
                   \* "never", "started", "stopped" or "disposed"
  initCount,       \* initialize() calls received, per plugin
  undisposed,      \* plugins that received initialize() and no dispose() since
  clock,           \* the Clock: the number of getDelta() samples taken from it
  deltaTime,       \* the module's deltaTime: the sample it holds, by its number
  isPaused,        \* the module's isPaused
  extrasLeft,      \* other calls the host may still make
  hostOps,         \* which other calls the host makes
  components,      \* Entity._components
  compEntity,      \* Component.entity
  keyStates,       \* Input.keyStates per plugin: "none" for a key not in the Map
  listening,       \* the plugin's keydown and keyup listeners are registered
  padStates,       \* GamepadState.buttonStates per plugin: "none" for a button not in the Map
  padDown,         \* gamepad.buttons[b].pressed, as navigator.getGamepads() reports it
  touchIds,        \* PointerStateCollection.touchIds, per plugin
  touching,        \* the touch pointers that are down on the screen
  mouseCoord,      \* PointerState.coordinates of the mouse pointer, per plugin
  mouseDelta,      \* PointerState.delta of the mouse pointer, per plugin
  mousePos,        \* where the mouse pointer is on the page
  mathIn,          \* the arguments given to the math utilities: a number n and the
                   \* triples a and b (a Vector3's x, y, z or a Spherical's radius, phi, theta)
  mathOut,         \* what the math utilities returned for them, once called
  keyedAt,         \* per plugin and key, the number of the last tick begun when the
                   \* plugin received keydown as its latest event for the key, else 0
  pool,            \* the plugin instances user code has constructed
  registered,      \* per type name, the plugin instance given last to addPlugins
                   \* since the plugin table was last cleared, or NoPlugin
  ctl              \* the control call the host made in the last step, what it logged
                   \* with console.warn, and the plugins whose dispose() it called

sched == <<renderer, camera, animationLoopId, pending, due, pc, i, toDelete>>
heap == <<entities, plugins, children, enabled, didStart, isDead, initialized, pEnabled>>
ghost == <<ev, api, ticksLeft, callsLeft, controlsLeft, seen, startCount, frameUpd, frameLate, steady,
           gone, reaped, killedIn, deadAtBegin, gotOnDestroy, owed, skipped, loop, initCount, undisposed, ctl>>
\* what the scheduler's own steps leave alone
math == <<mathIn, mathOut>>
host == <<isPaused, extrasLeft, hostOps, components, compEntity, math>>
pad == <<padStates, padDown>>
pointer == <<touchIds, touching, mouseCoord, mouseDelta, mousePos>>
input == <<keyStates, listening, keyedAt, pad, pointer>>
other == <<pool, registered, host, input>>
timer == <<clock, deltaTime>>
vars == <<sched, heap, ghost, other, timer>>

\* ------------------------------------------------------------ sequences
Range(s) == {s[k] : k \in 1..Len(s)}

\* Map.prototype.set: a key already present keeps its position
MapSet(m, k) == IF k \in Range(m) THEN m ELSE Append(m, k)

\* Map.prototype.delete
MapDelete(m, k) == SelectSeq(m, LAMBDA x : x # k)

RECURSIVE MapSetAll(_, _)
MapSetAll(m, ks) == IF ks = <<>> THEN m ELSE MapSetAll(MapSet(m, Head(ks)), Tail(ks))

RECURSIVE MapDeleteAll(_, _)
MapDeleteAll(m, ks) == IF ks = <<>> THEN m ELSE MapDeleteAll(MapDelete(m, Head(ks)), Tail(ks))

\* --------------------------------------------------------- scene graph
\* Object3D.traverse: the object itself, then each child's subtree, in order
RECURSIVE Traverse(_, _), TraverseList(_, _)
Traverse(ch, o) == <<o>> \o TraverseList(ch, ch[o])
TraverseList(ch, s) ==
  IF s = <<>> THEN <<>> ELSE Traverse(ch, Head(s)) \o TraverseList(ch, Tail(s))

Subtree(ch, o) == Range(Traverse(ch, o))

\* Object3D.removeFromParent
RemoveFromParent(ch, o) == [n \in Node |-> SelectSeq(ch[n], LAMBDA x : x # o)]

\* Object3D.add: refuses to add an object to itself, else moves it under p
Add(ch, p, o) ==
  IF o = p THEN ch ELSE [RemoveFromParent(ch, o) EXCEPT ![p] = Append(@, o)]

Parents(ch, o) == {n \in Node : o \in Range(ch[n])}

\* entity.traverse((child) => { if (child instanceof Entity) ... })
NestedEntities(ch, o) == SelectSeq(Traverse(ch, o), IsEntity)

\* ------------------------------------------------------------ user calls
\* A call user code makes into the API: op is "none", "destroy", "enable" or
\* "instantiate"; x is the object, v the value given to the enabled setter and
\* pa the optional parent argument (<<>> when it is left out).
NoCall == [op |-> "none", x |-> Scene, v |-> FALSE, pa |-> <<>>]

DestroyCalls ==
  {[op |-> "destroy", x |-> e, v |-> FALSE, pa |-> <<>>] : e \in {d \in Ent : ~isDead[d]}}

EnableCalls == {[op |-> "enable", x |-> e, v |-> ~enabled[e], pa |-> <<>>] : e \in Ent}

\* the parent given is never the object itself nor a node below it
InstantiateCalls ==
  {[op |-> "instantiate", x |-> o, v |-> FALSE, pa |-> a] :
     o \in Obj, a \in {<<>>} \cup {<<n>> : n \in Obj}}

ValidCall(c) ==
  c.op = "instantiate" /\ c.pa # <<>> => c.pa[1] \notin Subtree(children, c.x)

ApiCalls == {c \in DestroyCalls \cup EnableCalls \cup InstantiateCalls : ValidCall(c)}

\* what a callback may do: nothing, or one API call while the budget lasts
UserCalls == IF callsLeft > 0 THEN {NoCall} \cup ApiCalls ELSE {NoCall}

\* ------------------------------------------------------------ the API
\* mutant: destroy() flips the flag
destroy_Toggle(dead, e) == [dead EXCEPT ![e] = ~@]

\* Entity.destroy
destroy(dead, e) == [dead EXCEPT ![e] = TRUE]

\* set enabled(value)
setEnabled(en, e, value) == [en EXCEPT ![e] = value]

\* mutant: the traversal is left out, nested entities are not registered
instantiateObject_NoTraverse(ents, ch, object, pa) ==
  [entities |-> IF IsEntity(object) THEN MapSet(ents, object) ELSE ents,
   children |-> Add(ch, IF pa = <<>> THEN Scene ELSE pa[1], object),
   ret |-> object]

\* instantiateObject(object, parent): the table, the scene graph, the result
instantiateObject(ents, ch, object, pa) ==
  LET parent == IF pa = <<>> THEN Scene ELSE pa[1]
      own == IF IsEntity(object) THEN MapSet(ents, object) ELSE ents
  IN [entities |-> MapSetAll(own, NestedEntities(ch, object)),
      children |-> Add(ch, parent, object),
      ret |-> object]

\* the heap after user code made call c
AfterCall(c) ==
  LET inst == instantiateObject(entities, children, c.x, c.pa)
  IN [entities |-> IF c.op = "instantiate" THEN inst.entities ELSE entities,
      children |-> IF c.op = "instantiate" THEN inst.children ELSE children,
      enabled |-> IF c.op = "enable" THEN setEnabled(enabled, c.x, c.v) ELSE enabled,
      isDead |-> IF c.op = "destroy" THEN destroy(isDead, c.x) ELSE isDead,
      ret |-> IF c.op = "instantiate" THEN inst.ret ELSE Scene]

\* ------------------------------------------------------------ the record
NoEv == [op |-> "none", who |-> Scene, en |-> FALSE, dead |-> FALSE, started |-> FALSE, dt |-> 0,
         paused |-> FALSE, pressed |-> {}]

NoApi == [call |-> NoCall, ret |-> Scene]

\* no control call in this step
NoCtl == [op |-> "none", warn |-> "none", disposed |-> {}, destroyed |-> {},
          args |-> [dt |-> 0, paused |-> FALSE], x |-> Scene, c |-> 0]

\* the host called op, which logged warning w and disposed the plugins ps
CtlEv(op, w, ps) == [NoCtl EXCEPT !.op = op, !.warn = w, !.disposed = ps]

\* entity.onDestroy(0, false): the arguments clearScene gives every onDestroy call
DestroyArgs == [dt |-> 0, paused |-> FALSE]

\* the control call also called onDestroy on the entities es
WithDestroyed(c, es) == [c EXCEPT !.destroyed = es, !.args = DestroyArgs]

\* this.keyStates.has(keyName) && this.keyStates.get(keyName) === ButtonState.Pressed
getKeyPressed(ks, k) == ks[k] = "Pressed"

\* this.keyStates.has(keyName) && this.keyStates.get(keyName) !== ButtonState.Released
getKeyHeld(ks, k) == ks[k] # "none" /\ ks[k] # "Released"

\* what getKeyPressed answers at this moment, as the pairs (plugin, key) it is true for
Pressed == {pk \in Plug \X Keys : getKeyPressed(keyStates[pk[1]], pk[2])}

\* the scheduler called op on entity e: the flags are those at the moment of the call
EntityEv(op, e) ==
  [op |-> op, who |-> e, en |-> enabled[e], dead |-> isDead[e], started |-> didStart[e],
   dt |-> deltaTime, paused |-> isPaused, pressed |-> Pressed]

\* the scheduler called op on plugin p
PluginEv(op, p) ==
  [op |-> op, who |-> p, en |-> pEnabled[p], dead |-> FALSE, started |-> initialized[p],
   dt |-> deltaTime, paused |-> isPaused, pressed |-> Pressed]

PassEv(op) == [NoEv EXCEPT !.op = op]

\* entities that call c makes disabled or dead
Dropped(c) ==
  IF c.op = "destroy" \/ (c.op = "enable" /\ ~c.v) THEN {c.x} ELSE {}

Bump(f, e) == [f EXCEPT ![e] = IF @ < 2 THEN @ + 1 ELSE @]

\* bookkeeping of the user call c made during pass `where`, leading to heap h
Called(c, h, where) ==
  /\ api' = [call |-> c, ret |-> h.ret]
  /\ callsLeft' = callsLeft - (IF c.op = "none" THEN 0 ELSE 1)
  /\ killedIn' = IF c.op = "destroy" /\ ~isDead[c.x]
                 THEN [killedIn EXCEPT ![c.x] = where] ELSE killedIn
  /\ gone' = gone \ Range(h.entities)
  /\ steady' = steady \ Dropped(c)

Logged(e) ==
  /\ ev' = e
  /\ seen' = IF ev.op = "none" THEN seen ELSE seen \cup {ev.op}

\* ------------------------------------------------------------ the guards
\* mutant: the initialized test is left out
InitGuard_NoFlag(en, inited) == en

\* if (plugin.enabled && !plugin.initialized)
InitGuard(en, inited) == en /\ ~inited

\* mutants: the didStart test, or the enabled test, is left out
StartGuard_NoFlag(en, started) == en

StartGuard_NoEnabled(en, started) == ~started

\* if (entity.enabled && !entity.didStart)
StartGuard(en, started) == en /\ ~started

\* mutant: the isDead test is left out
UpdateGuard_NoDead(en, dead) == en

\* if (entity.enabled && !entity.isDead)
UpdateGuard(en, dead) == en /\ ~dead

\* mutant: an else-if, so an entity that was just started is not looked at
Detect_ElseIf(todo, e, dead, fired) == IF dead /\ ~fired THEN Append(todo, e) ELSE todo

\* lines 49-51: if (entity.isDead) toDelete.push(entity), whether or not onStart fired
Detect(todo, e, dead, fired) == IF dead THEN Append(todo, e) ELSE todo

\* mutant: the late-update pass runs before the update pass
NextPass_LateFirst(p) ==
  CASE p = "pluginInit" -> "start"
    [] p = "start" -> "reap"
    [] p = "reap" -> "render"
    [] p = "render" -> "pluginUpdate"
    [] p = "pluginUpdate" -> "lateUpdate"
    [] p = "lateUpdate" -> "update"
    [] p = "update" -> "pluginLateUpdate"
    [] p = "pluginLateUpdate" -> "idle"

\* the order of the passes of animationLoop
NextPass(p) ==
  CASE p = "pluginInit" -> "start"
    [] p = "start" -> "reap"
    [] p = "reap" -> "render"
    [] p = "render" -> "pluginUpdate"
    [] p = "pluginUpdate" -> "update"
    [] p = "update" -> "lateUpdate"
    [] p = "lateUpdate" -> "pluginLateUpdate"
    [] p = "pluginLateUpdate" -> "idle"

\* the Map a pass iterates
Table(p) == IF p \in {"start", "update", "lateUpdate"} THEN entities ELSE plugins

\* ------------------------------------------------------------ the tick
\* mutant: the tick keeps the value it holds instead of sampling the clock
TickDelta_Held(held, sample) == held

\* deltaTime = clock.getDelta()
TickDelta(held, sample) == sample

\* mutant: the tick does not request the next frame
requestAnimationFrame_None(n) == n

\* requestAnimationFrame(animationLoop): one more frame callback is requested
requestAnimationFrame(n) == n + 1

\* animationLoop, lines 30-31: request the next frame, then run the passes
BeginTick ==
  /\ clock' = clock + 1
  /\ deltaTime' = TickDelta(deltaTime, clock + 1)
  /\ ticksLeft > 0
  /\ animationLoopId' = "id"
  /\ pending' = requestAnimationFrame(pending)
  /\ pc' = "pluginInit"
  /\ i' = 1
  /\ toDelete' = <<>>
  /\ ticksLeft' = ticksLeft - 1
  /\ ev' = NoEv
  /\ api' = NoApi
  /\ seen' = {}
  /\ killedIn' = [e \in Ent |-> "none"]
  /\ deadAtBegin' = {e \in Ent : isDead[e]}
  /\ reaped' = {}
  /\ owed' = {}
  /\ UNCHANGED <<heap, renderer, camera, callsLeft, startCount, gone, gotOnDestroy,
                 frameUpd, frameLate>>

\* the display refresh: the callbacks requested so far become due
BeginFrame ==
  /\ UNCHANGED <<other, timer>>
  /\ UNCHANGED <<controlsLeft, skipped, loop, initCount, undisposed>>
  /\ ctl' = NoCtl
  /\ pc = "idle"
  /\ due = 0
  /\ pending > 0
  /\ ticksLeft > 0
  /\ due' = pending
  /\ pending' = 0
  /\ frameUpd' = [e \in Ent |-> 0]
  /\ frameLate' = [e \in Ent |-> 0]
  /\ steady' = {e \in Range(entities) : enabled[e] /\ ~isDead[e]}
  /\ ev' = NoEv
  /\ api' = NoApi
  /\ UNCHANGED <<heap, renderer, camera, animationLoopId, pc, i, toDelete, ticksLeft, callsLeft,
                 seen, startCount, gone, reaped, killedIn, deadAtBegin, gotOnDestroy, owed>>

\* the browser runs one due callback: animationLoop
FrameTick ==
  /\ UNCHANGED other
  /\ UNCHANGED <<controlsLeft, skipped, loop, initCount, undisposed>>
  /\ ctl' = NoCtl
  /\ pc = "idle"
  /\ due > 0
  /\ due' = due - 1
  /\ BeginTick
  /\ UNCHANGED steady

\* a forEach is past the last entry of its Map: the next pass begins
PassDone ==
  /\ UNCHANGED <<other, timer>>
  /\ UNCHANGED <<controlsLeft, skipped, loop, initCount, undisposed>>
  /\ ctl' = NoCtl
  /\ pc \in {"pluginInit", "start", "pluginUpdate", "update", "lateUpdate"}
  /\ i > Len(Table(pc))
  /\ pc' = NextPass(pc)
  /\ i' = 1
  /\ owed' = IF pc = "pluginInit"
             THEN {e \in Range(entities) : enabled[e] /\ ~didStart[e]} ELSE owed
  /\ Logged(NoEv)
  /\ api' = NoApi
  /\ UNCHANGED <<heap, renderer, camera, animationLoopId, pending, due, toDelete, ticksLeft,
                 callsLeft, startCount, frameUpd, frameLate, steady, gone, reaped, killedIn,
                 deadAtBegin, gotOnDestroy>>

\* the last forEach is over: animationLoop returns, its locals are gone
TickDone ==
  /\ UNCHANGED <<other, timer>>
  /\ UNCHANGED <<controlsLeft, skipped, loop, initCount, undisposed>>
  /\ ctl' = NoCtl
  /\ pc = "pluginLateUpdate"
  /\ i > Len(plugins)
  /\ pc' = NextPass(pc)
  /\ i' = 1
  /\ toDelete' = <<>>
  /\ ev' = NoEv
  /\ api' = NoApi
  /\ seen' = {}
  /\ killedIn' = [e \in Ent |-> "none"]
  /\ deadAtBegin' = {}
  /\ reaped' = {}
  /\ owed' = {}
  /\ UNCHANGED <<heap, renderer, camera, animationLoopId, pending, due, ticksLeft,
                 callsLeft, startCount, frameUpd, frameLate, steady, gone, gotOnDestroy>>

\* lines 34-39: one plugin of the initialization pass
PluginInitVisit ==
  /\ UNCHANGED <<pool, registered, host, timer, keyStates, keyedAt, pad, pointer>>
  /\ listening' = IF i <= Len(plugins) /\ IsInput(plugins[i])
                     /\ InitGuard(pEnabled[plugins[i]], initialized[plugins[i]])
                  THEN [listening EXCEPT ![plugins[i]] = TRUE] ELSE listening
  /\ UNCHANGED <<controlsLeft, skipped, loop>>
  /\ ctl' = NoCtl
  /\ pc = "pluginInit"
  /\ i <= Len(plugins)
  /\ LET p == plugins[i]
         fire == InitGuard(pEnabled[p], initialized[p])
     IN \E c \in (IF fire THEN UserCalls ELSE {NoCall}) :
          LET h == AfterCall(c)
          IN /\ entities' = h.entities
             /\ children' = h.children
             /\ enabled' = h.enabled
             /\ isDead' = h.isDead
             /\ initialized' = IF fire THEN [initialized EXCEPT ![p] = TRUE] ELSE initialized
             /\ initCount' = IF fire THEN Bump(initCount, p) ELSE initCount
             /\ undisposed' = IF fire THEN undisposed \cup {p} ELSE undisposed
             /\ Logged(IF fire THEN PluginEv("initialize", p) ELSE NoEv)
             /\ Called(c, h, pc)
  /\ i' = i + 1
  /\ UNCHANGED <<plugins, didStart, pEnabled, renderer, camera, animationLoopId, pending,
                 due, pc, toDelete, ticksLeft, startCount, frameUpd, frameLate, reaped,
                 deadAtBegin, gotOnDestroy, owed>>

\* lines 43-52: one entity of the start pass
StartVisit ==
  /\ UNCHANGED <<other, timer>>
  /\ UNCHANGED <<controlsLeft, loop, initCount, undisposed>>
  /\ ctl' = NoCtl
  /\ pc = "start"
  /\ i <= Len(entities)
  /\ LET e == entities[i]
         fire == StartGuard(enabled[e], didStart[e])
     IN \E c \in (IF fire THEN UserCalls ELSE {NoCall}) :
          LET h == AfterCall(c)
          IN /\ entities' = h.entities
             /\ children' = h.children
             /\ enabled' = h.enabled
             /\ isDead' = h.isDead
             /\ didStart' = IF fire THEN [didStart EXCEPT ![e] = TRUE] ELSE didStart
             /\ startCount' = IF fire THEN Bump(startCount, e) ELSE startCount
             /\ toDelete' = Detect(toDelete, e, h.isDead[e], fire)
             /\ skipped' = IF ~enabled[e] /\ ~didStart[e] THEN skipped \cup {e} ELSE skipped
             /\ owed' = (owed \ Dropped(c)) \ (IF fire THEN {e} ELSE {})
             /\ Logged(IF fire THEN EntityEv("onStart", e) ELSE NoEv)
             /\ Called(c, h, IF c.x \in Range(SubSeq(entities, 1, i - 1))
                             THEN "startPassed" ELSE "start")
  /\ i' = i + 1
  /\ UNCHANGED <<plugins, initialized, pEnabled, renderer, camera, animationLoopId,
                 pending, due, pc, ticksLeft, frameUpd, frameLate, reaped, deadAtBegin,
                 gotOnDestroy>>

\* mutant: the traversal is left out, only the dead entity's own id is removed
RemoveIds_Self(ch, e) == <<e>>

\* lines 56-61: the ids one dead entity takes out of the table
RemoveIds(ch, e) == <<e>> \o NestedEntities(ch, e)

\* mutant: the reap pass scans the table for dead entities
ReapList_Scan(todo, ents, dead) == SelectSeq(ents, LAMBDA e : dead[e])

\* line 54: the reap pass works through the list the start pass collected
ReapList(todo, ents, dead) == todo

\* lines 54-65: toDelete.forEach
RECURSIVE ReapAll(_, _, _)
ReapAll(todo, ents, ch) ==
  IF todo = <<>>
  THEN [entities |-> ents, children |-> ch, removed |-> {}]
  ELSE LET e == Head(todo)
           detached == RemoveFromParent(ch, e)
           removeIds == RemoveIds(detached, e)
           rest == ReapAll(Tail(todo), MapDeleteAll(ents, removeIds), detached)
       IN [rest EXCEPT !.removed = @ \cup (Range(removeIds) \cap Range(ents))]

\* the entities among the given roots and anywhere below them
Below(ch, roots) == UNION {Subtree(ch, a) \cap Ent : a \in Range(roots)}

\* the reap pass
Reap ==
  /\ UNCHANGED <<other, timer>>
  /\ UNCHANGED <<controlsLeft, skipped, loop, initCount, undisposed>>
  /\ ctl' = NoCtl
  /\ pc = "reap"
  /\ LET r == ReapAll(ReapList(toDelete, entities, isDead), entities, children)
     IN /\ entities' = r.entities
        /\ children' = r.children
        /\ reaped' = r.removed
        /\ gone' = gone \cup Below(r.children, toDelete)
        /\ steady' = steady \ r.removed
  /\ pc' = NextPass(pc)
  /\ Logged(PassEv("reap"))
  /\ api' = NoApi
  /\ UNCHANGED <<plugins, enabled, didStart, isDead, initialized, pEnabled, renderer,
                 camera, animationLoopId, pending, due, i, toDelete, ticksLeft, callsLeft,
                 startCount, frameUpd, frameLate, killedIn, deadAtBegin, gotOnDestroy, owed>>

\* mutant: render is called without looking at the handles
RenderOutcome_NoTest(c, r) == "render"

\* if (_camera && _renderer) render, else console.error; nothing is thrown
RenderOutcome(c, r) == IF c /\ r THEN "render" ELSE "error"

\* lines 67-71: render, or console.error when the renderer or the camera is null
Render ==
  /\ UNCHANGED <<other, timer>>
  /\ UNCHANGED <<controlsLeft, skipped, loop, initCount, undisposed>>
  /\ ctl' = NoCtl
  /\ pc = "render"
  /\ pc' = NextPass(pc)
  /\ i' = 1
  /\ Logged(PassEv(RenderOutcome(camera, renderer)))
  /\ api' = NoApi
  /\ UNCHANGED <<heap, renderer, camera, animationLoopId, pending, due, toDelete, ticksLeft,
                 callsLeft, startCount, frameUpd, frameLate, steady, gone, reaped, killedIn,
                 deadAtBegin, gotOnDestroy, owed>>

\* the truth value of a ButtonState | null: null is falsy, and so is
\* ButtonState.Pressed, the first member of the enum and therefore the number 0
ButtonTruthy(st) == st \notin {"none", "Pressed"}

\* updateGamepadStates, for one button: the previous state and button.pressed
PollButton(prev, pressed) ==
  IF prev = "none" /\ pressed THEN "Pressed"
  ELSE IF prev = "Pressed" /\ pressed THEN "Held"
  ELSE IF ButtonTruthy(prev) /\ prev # "Released" /\ ~pressed THEN "Released"
  ELSE IF prev = "Released" /\ ~pressed THEN "none"
  ELSE prev

\* updateGamepadStates: gamepad.buttons.forEach, for the connected gamepad
updateGamepadStates(bs, down) == [b \in Buttons |-> PollButton(bs[b], down[b])]

\* Input.lateUpdate: pointerStates.clearAllDeltas()
clearAllDeltas(d) == 0

\* Input.update: a key pressed becomes held, a key released leaves the Map
InputUpdate(ks) ==
  [k \in Keys |-> CASE ks[k] = "Pressed" -> "Held"
                   [] ks[k] = "Released" -> "none"
                   [] OTHER -> ks[k]]

\* lines 74-76 and 91-93: one plugin of the update or of the lateUpdate pass
PluginVisit(pass, op) ==
  /\ UNCHANGED <<pool, registered, host, timer, listening, keyedAt, padDown>>
  /\ UNCHANGED <<touchIds, touching, mouseCoord, mousePos>>
  /\ mouseDelta' = IF i <= Len(plugins) /\ IsInput(plugins[i]) /\ op = "lateUpdate"
                   THEN [mouseDelta EXCEPT ![plugins[i]] = clearAllDeltas(@)] ELSE mouseDelta
  /\ padStates' = IF i <= Len(plugins) /\ IsInput(plugins[i]) /\ op = "update"
                  THEN [padStates EXCEPT ![plugins[i]] = updateGamepadStates(@, padDown)]
                  ELSE padStates
  /\ keyStates' = IF i <= Len(plugins) /\ IsInput(plugins[i]) /\ op = "update"
                  THEN [keyStates EXCEPT ![plugins[i]] = InputUpdate(@)] ELSE keyStates
  /\ UNCHANGED <<controlsLeft, skipped, loop, initCount, undisposed>>
  /\ ctl' = NoCtl
  /\ pc = pass
  /\ i <= Len(plugins)
  /\ \E c \in UserCalls :
       LET h == AfterCall(c)
       IN /\ entities' = h.entities
          /\ children' = h.children
          /\ enabled' = h.enabled
          /\ isDead' = h.isDead
          /\ Logged(PluginEv(op, plugins[i]))
          /\ Called(c, h, pc)
  /\ i' = i + 1
  /\ UNCHANGED <<plugins, didStart, initialized, pEnabled, renderer, camera,
                 animationLoopId, pending, due, pc, toDelete, ticksLeft, startCount,
                 frameUpd, frameLate, reaped, deadAtBegin, gotOnDestroy, owed>>

PluginUpdateVisit == PluginVisit("pluginUpdate", "update")

PluginLateUpdateVisit == PluginVisit("pluginLateUpdate", "lateUpdate")

\* lines 79-88: one entity of the update or of the late-update pass
EntityVisit(pass, op) ==
  /\ UNCHANGED <<other, timer>>
  /\ UNCHANGED <<controlsLeft, skipped, loop, initCount, undisposed>>
  /\ ctl' = NoCtl
  /\ pc = pass
  /\ i <= Len(entities)
  /\ LET e == entities[i]
         fire == UpdateGuard(enabled[e], isDead[e])
     IN \E c \in (IF fire THEN UserCalls ELSE {NoCall}) :
          LET h == AfterCall(c)
          IN /\ entities' = h.entities
             /\ children' = h.children
             /\ enabled' = h.enabled
             /\ isDead' = h.isDead
             /\ frameUpd' = IF fire /\ op = "onUpdate" THEN Bump(frameUpd, e) ELSE frameUpd
             /\ frameLate' = IF fire /\ op = "onLateUpdate" THEN Bump(frameLate, e)
                             ELSE frameLate
             /\ Logged(IF fire THEN EntityEv(op, e) ELSE NoEv)
             /\ Called(c, h, pc)
  /\ i' = i + 1
  /\ UNCHANGED <<plugins, didStart, initialized, pEnabled, renderer, camera,
                 animationLoopId, pending, due, pc, toDelete, ticksLeft, startCount, reaped,
                 deadAtBegin, gotOnDestroy, owed>>

UpdateVisit == EntityVisit("update", "onUpdate")

LateUpdateVisit == EntityVisit("lateUpdate", "onLateUpdate")

\* ------------------------------------------------- the host application
\* between display frames, outside any tick
Outside == pc = "idle" /\ due = 0

\* the host application makes one of its control calls
Control ==
  /\ Outside
  /\ controlsLeft > 0
  /\ controlsLeft' = controlsLeft - 1
  /\ UNCHANGED <<skipped, initCount>>

\* user code calls destroy, the enabled setter or instantiateObject
ExternalCall ==
  /\ UNCHANGED <<other, timer>>
  /\ UNCHANGED <<controlsLeft, skipped, loop, initCount, undisposed>>
  /\ ctl' = NoCtl
  /\ Outside
  /\ \E c \in UserCalls \ {NoCall} :
       LET h == AfterCall(c)
       IN /\ entities' = h.entities
          /\ children' = h.children
          /\ enabled' = h.enabled
          /\ isDead' = h.isDead
          /\ Called(c, h, pc)
  /\ ev' = NoEv
  /\ UNCHANGED <<plugins, didStart, initialized, pEnabled, sched, ticksLeft, seen, startCount,
                 frameUpd, frameLate, reaped, deadAtBegin, gotOnDestroy, owed>>

\* mutant: a type name already in the table keeps its first instance
PluginSet_KeepFirst(m, p) ==
  IF \E k \in 1..Len(m) : TypeName(m[k]) = TypeName(p) THEN m ELSE Append(m, p)

\* mutant: a type name set again moves to the end of the iteration order
PluginSet_MoveToEnd(m, p) ==
  Append(SelectSeq(m, LAMBDA q : TypeName(q) # TypeName(p)), p)

\* Map.prototype.set(plugin.constructor.name, plugin)
PluginSet(m, p) ==
  IF \E k \in 1..Len(m) : TypeName(m[k]) = TypeName(p)
  THEN [k \in 1..Len(m) |-> IF TypeName(m[k]) = TypeName(p) THEN p ELSE m[k]]
  ELSE Append(m, p)

\* (_plugins.get(typeName) as T) ?? null
getPluginByTypeName(m, typeName) ==
  IF \E k \in 1..Len(m) : TypeName(m[k]) = typeName
  THEN m[CHOOSE k \in 1..Len(m) : TypeName(m[k]) = typeName]
  ELSE NoPlugin

\* addPlugins(plugin)
AddPlugins ==
  /\ UNCHANGED undisposed
  /\ UNCHANGED <<pool, timer, host, input>>
  /\ Control
  /\ \E p \in pool :
       /\ plugins' = PluginSet(plugins, p)
       /\ registered' = [registered EXCEPT ![TypeName(p)] = p]
  /\ ctl' = CtlEv("addPlugins", "none", {})
  /\ UNCHANGED loop
  /\ ev' = NoEv
  /\ api' = NoApi
  /\ UNCHANGED <<entities, children, enabled, didStart, isDead, initialized, pEnabled,
                 sched, ticksLeft, callsLeft, seen, startCount, frameUpd, frameLate, steady, gone,
                 reaped, killedIn, deadAtBegin, gotOnDestroy, owed>>

\* setCamera(camera), called while no camera is set
SetCamera ==
  /\ UNCHANGED undisposed
  /\ UNCHANGED <<other, timer>>
  /\ Control
  /\ ~camera
  /\ camera' = TRUE
  /\ ctl' = CtlEv("setCamera", "none", {})
  /\ UNCHANGED loop
  /\ ev' = NoEv
  /\ api' = NoApi
  /\ UNCHANGED <<heap, renderer, animationLoopId, pending, due, pc, i, toDelete, ticksLeft,
                 callsLeft, seen, startCount, frameUpd, frameLate, steady, gone, reaped,
                 killedIn, deadAtBegin, gotOnDestroy, owed>>

\* scene.add(object) on the Scene that getScene() returns
sceneAdd(ch, o) == Add(ch, Scene, o)

\* this._components.push(...components)
addComponents(comps, e, k) == [comps EXCEPT ![e] = Append(@, k)]

\* onPointerDown, onPointerMove, onPointerCancel of a touch pointer: pointerStates.set
\* adds its id; onPointerUp: pointerStates.delete removes it
TouchEvent(ids, op, t) ==
  CASE op \in {"pointerdown", "touchmove", "pointercancel"} -> ids \cup {t}
    [] op = "pointerup" -> ids \ {t}
    [] OTHER -> ids

\* get touchCount: pointerStates.getNumberOf(InputType.Touch), the size of touchIds
touchCount(ids) == Cardinality(ids)

\* onPointerMove: the delta grows by the event's page position minus the recorded
\* coordinates, which are those of a new PointerState, (0, 0), for a pointer that
\* was not in the collection
MoveDelta(coord, delta, page) == delta + (page - coord)

\* onKeyDown, onKeyUp: the listening plugins record the key as Pressed or Released
KeyEvent(ks, op, k) ==
  [p \in Plug |-> IF listening[p] /\ op \in {"keydown", "keyup"}
                  THEN [ks[p] EXCEPT ![k] = IF op = "keydown" THEN "Pressed" ELSE "Released"]
                  ELSE ks[p]]

\* The other things that happen between ticks: the host uses the isPaused setter,
\* add() on the scene root, addComponents, or destroy() on an entity that is already
\* dead; the browser delivers a keydown or a keyup event, or a pointer event of a
\* touch or of the mouse; the user presses or lets go of a gamepad button.
OtherCalls ==
  (IF "isPaused" \in hostOps THEN {[op |-> "isPaused", x |-> Scene, c |-> 0]} ELSE {})
  \cup (IF "sceneAdd" \in hostOps
        THEN {[op |-> "sceneAdd", x |-> o, c |-> 0] : o \in Obj} ELSE {})
  \cup (IF "addComponents" \in hostOps
        THEN {[op |-> "addComponents", x |-> e, c |-> k] : e \in Ent, k \in Comp} ELSE {})
  \cup (IF "destroy" \in hostOps
        THEN {[op |-> "destroy", x |-> e, c |-> 0] : e \in {d \in Ent : isDead[d]}} ELSE {})
  \cup (IF "pad" \in hostOps
        THEN {[op |-> "pad", x |-> Scene, c |-> b] : b \in Buttons} ELSE {})
  \cup (IF "touch" \in hostOps
        THEN {[op |-> "pointerdown", x |-> Scene, c |-> t] : t \in Touches \ touching}
             \cup {[op |-> o, x |-> Scene, c |-> t] :
                     o \in {"pointerup", "pointercancel", "touchmove"}, t \in touching}
        ELSE {})
  \cup (IF "mouse" \in hostOps
        THEN {[op |-> "mousemove", x |-> Scene, c |-> q] : q \in Pos \ {mousePos}}
             \cup {[op |-> "mousedown", x |-> Scene, c |-> mousePos]}
        ELSE {})
  \cup (IF "key" \in hostOps
        THEN {[op |-> o, x |-> Scene, c |-> k] : o \in {"keydown", "keyup"}, k \in Keys}
        ELSE {})

\* the host makes one of its other calls, between ticks
OtherCall ==
  /\ Outside
  /\ extrasLeft > 0
  /\ extrasLeft' = extrasLeft - 1
  /\ \E c \in OtherCalls :
       /\ isPaused' = IF c.op = "isPaused" THEN ~isPaused ELSE isPaused
       /\ children' = IF c.op = "sceneAdd" THEN sceneAdd(children, c.x) ELSE children
       /\ components' = IF c.op = "addComponents"
                        THEN addComponents(components, c.x, c.c) ELSE components
       /\ isDead' = IF c.op = "destroy" THEN destroy(isDead, c.x) ELSE isDead
       /\ keyStates' = KeyEvent(keyStates, c.op, c.c)
       /\ touchIds' = [p \in Plug |-> IF listening[p] THEN TouchEvent(touchIds[p], c.op, c.c)
                                       ELSE touchIds[p]]
       /\ touching' = IF c.op = "pointerdown" THEN touching \cup {c.c}
                      ELSE IF c.op \in {"pointerup", "pointercancel"} THEN touching \ {c.c}
                      ELSE touching
       /\ mousePos' = IF c.op = "mousemove" THEN c.c ELSE mousePos
       /\ mouseDelta' = [p \in Plug |-> IF listening[p] /\ c.op = "mousemove"
                                         THEN MoveDelta(mouseCoord[p], mouseDelta[p], c.c)
                                         ELSE mouseDelta[p]]
       /\ mouseCoord' = [p \in Plug |-> IF listening[p] /\ c.op \in {"mousemove", "mousedown"}
                                         THEN c.c ELSE mouseCoord[p]]
       /\ padDown' = IF c.op = "pad" THEN [padDown EXCEPT ![c.c] = ~@] ELSE padDown
       /\ keyedAt' = [p \in Plug |->
                       IF listening[p] /\ c.op \in {"keydown", "keyup"}
                       THEN [keyedAt[p] EXCEPT ![c.c] = IF c.op = "keydown" THEN clock ELSE 0]
                       ELSE keyedAt[p]]
       /\ ctl' = [CtlEv(c.op, "none", {}) EXCEPT !.x = c.x, !.c = c.c]
  /\ ev' = NoEv
  /\ api' = NoApi
  /\ UNCHANGED <<entities, plugins, enabled, didStart, initialized, pEnabled, sched, timer,
                 pool, registered, hostOps, compEntity, math, listening, padStates, ticksLeft, callsLeft, controlsLeft,
                 seen, startCount, frameUpd, frameLate, steady, gone, reaped, killedIn,
                 deadAtBegin, gotOnDestroy, owed, skipped, loop, initCount, undisposed>>

\* user code assigns plugin.enabled, between ticks
PluginEnable ==
  /\ UNCHANGED <<other, timer>>
  /\ Outside
  /\ callsLeft > 0
  /\ callsLeft' = callsLeft - 1
  /\ \E p \in pool : pEnabled' = [pEnabled EXCEPT ![p] = ~@]
  /\ ctl' = NoCtl
  /\ ev' = NoEv
  /\ api' = NoApi
  /\ UNCHANGED <<entities, plugins, children, enabled, didStart, isDead, initialized, sched,
                 ticksLeft, controlsLeft, seen, startCount, frameUpd, frameLate, steady, gone,
                 reaped, killedIn, deadAtBegin, gotOnDestroy, owed, skipped, loop, initCount, undisposed>>

\* mutant: start() is refused only when both handles are missing
StartRefused_Both(r, c) == ~r /\ ~c

\* if (!_renderer || !_camera)
StartRefused(r, c) == ~r \/ ~c

\* if (animationLoopId): undefined and null are falsy, a request id is not
Truthy(id) == id = "id"

\* start(): refused with a warning without renderer or camera; with the loop
\* running it warns and calls animationLoop() all the same
Start ==
  /\ UNCHANGED undisposed
  /\ UNCHANGED other
  /\ Control
  /\ IF StartRefused(renderer, camera)
     THEN /\ ctl' = CtlEv("start", "notInitialized", {})
          /\ UNCHANGED timer
          /\ UNCHANGED loop
          /\ ev' = NoEv
          /\ api' = NoApi
          /\ UNCHANGED <<heap, sched, ticksLeft, callsLeft, seen, startCount, frameUpd,
                         frameLate, steady, gone, reaped, killedIn, deadAtBegin,
                         gotOnDestroy, owed>>
     ELSE /\ pending < MaxChains
          /\ BeginTick
          /\ ctl' = CtlEv("start", IF Truthy(animationLoopId) THEN "alreadyStarted" ELSE "none", {})
          /\ steady' = {}
          /\ loop' = "started"
          /\ UNCHANGED due

\* if (animationLoopId !== null): true of a request id and of undefined
StopGuard(id) == id # "null"

\* cancelAnimationFrame(animationLoopId): n requests pending, the one with this id is dropped
Cancel(id, n) == IF id = "id" THEN n - 1 ELSE n

\* what stop() logs
StopWarning(id) == IF StopGuard(id) THEN "none" ELSE "notRunning"

\* stop(): cancels the latest request and sets animationLoopId to null, or warns
Stop ==
  /\ UNCHANGED undisposed
  /\ UNCHANGED <<other, timer>>
  /\ Control
  /\ animationLoopId' = IF StopGuard(animationLoopId) THEN "null" ELSE animationLoopId
  /\ pending' = IF StopGuard(animationLoopId) THEN Cancel(animationLoopId, pending) ELSE pending
  /\ ctl' = CtlEv("stop", StopWarning(animationLoopId), {})
  /\ loop' = "stopped"
  /\ ev' = NoEv
  /\ api' = NoApi
  /\ UNCHANGED <<heap, renderer, camera, due, pc, i, toDelete, ticksLeft, callsLeft, seen,
                 startCount, frameUpd, frameLate, steady, gone, reaped, killedIn,
                 deadAtBegin, gotOnDestroy, owed>>

\* the body of dispose(): stop(), clearPlugins(), clearScene()
DisposeAll ==
  /\ animationLoopId' = IF StopGuard(animationLoopId) THEN "null" ELSE animationLoopId
  /\ pending' = IF StopGuard(animationLoopId) THEN Cancel(animationLoopId, pending) ELSE pending
  /\ loop' = "disposed"
  /\ plugins' = <<>>
  /\ gotOnDestroy' = gotOnDestroy \cup Range(entities)
  /\ entities' = <<>>
  /\ children' = [children EXCEPT ![Scene] = <<>>]
  /\ steady' = {}
  /\ ev' = NoEv
  /\ api' = NoApi
  /\ UNCHANGED <<enabled, didStart, isDead, initialized, pEnabled, due, pc, i, toDelete,
                 ticksLeft, callsLeft, seen, startCount, frameUpd, frameLate, gone, reaped,
                 killedIn, deadAtBegin, owed>>

\* Input.dispose of every Input in the table removes its listeners
Unlisten(ps) == [p \in Plug |-> listening[p] /\ ~(IsInput(p) /\ p \in Range(ps))]

\* dispose(): the teardown, then both handles become null
Dispose ==
  /\ UNCHANGED <<pool, timer, host, keyStates, keyedAt, pad, pointer>>
  /\ listening' = Unlisten(plugins)
  /\ undisposed' = undisposed \ Range(plugins)
  /\ registered' = [n \in TypeNames |-> NoPlugin]
  /\ Control
  /\ DisposeAll
  /\ ctl' = WithDestroyed(CtlEv("dispose", StopWarning(animationLoopId), Range(plugins)),
                           Range(entities))
  /\ renderer' = FALSE
  /\ camera' = FALSE

\* if (animationLoopId) dispose()
InitializeClears(id) == Truthy(id)

\* initialize(): disposes first when animationLoopId holds a request id
Initialize ==
  /\ UNCHANGED <<pool, timer, host, keyStates, keyedAt, pad, pointer>>
  /\ listening' = IF InitializeClears(animationLoopId) THEN Unlisten(plugins) ELSE listening
  /\ undisposed' = IF InitializeClears(animationLoopId)
                   THEN undisposed \ Range(plugins) ELSE undisposed
  /\ registered' = IF InitializeClears(animationLoopId)
                   THEN [n \in TypeNames |-> NoPlugin] ELSE registered
  /\ Control
  /\ IF InitializeClears(animationLoopId)
     THEN /\ DisposeAll
          /\ ctl' = WithDestroyed(CtlEv("initialize", "none", Range(plugins)), Range(entities))
     ELSE /\ ctl' = CtlEv("initialize", "none", {})
          /\ UNCHANGED loop
          /\ ev' = NoEv
          /\ api' = NoApi
          /\ UNCHANGED <<heap, animationLoopId, pending, due, pc, i, toDelete, ticksLeft,
                         callsLeft, seen, startCount, frameUpd, frameLate, steady, gone,
                         reaped, killedIn, deadAtBegin, gotOnDestroy, owed>>
  /\ renderer' = TRUE
  /\ camera' = TRUE

\* ------------------------------------------------------ callbacks that throw
\* the callback the pass is about to call on the entry it visits, if it calls one
Callee ==
  IF pc \in {"pluginInit", "pluginUpdate", "pluginLateUpdate"}
  THEN IF i <= Len(plugins)
          /\ (pc = "pluginInit" => InitGuard(pEnabled[plugins[i]], initialized[plugins[i]]))
       THEN {plugins[i]} ELSE {}
  ELSE IF pc \in {"start", "update", "lateUpdate"} /\ i <= Len(entities)
          /\ (pc = "start" => StartGuard(enabled[entities[i]], didStart[entities[i]]))
          /\ (pc # "start" => UpdateGuard(enabled[entities[i]], isDead[entities[i]]))
       THEN {entities[i]} ELSE {}

\* the callback a pass calls makes at most one call and then throws: nothing catches
\* the exception, so the statements after the call (lines 37, 46 and 49-51), the rest of
\* the forEach and the rest of animationLoop do not run; the frame requested on line
\* 30 stays requested
Throw ==
  /\ UNCHANGED <<other, timer>>
  /\ UNCHANGED <<controlsLeft, skipped, loop, initCount, undisposed>>
  /\ ctl' = NoCtl
  /\ \E who \in Callee : \E c \in UserCalls :
       LET h == AfterCall(c)
       IN /\ entities' = h.entities
          /\ children' = h.children
          /\ enabled' = h.enabled
          /\ isDead' = h.isDead
          /\ startCount' = IF pc = "start" THEN Bump(startCount, who) ELSE startCount
          /\ ev' = [NoEv EXCEPT !.op = "throw", !.who = who]
          /\ api' = [call |-> c, ret |-> h.ret]
          /\ callsLeft' = callsLeft - (IF c.op = "none" THEN 0 ELSE 1)
          /\ gone' = gone \ Range(h.entities)
          /\ steady' = steady \ Dropped(c)
  /\ pc' = "idle"
  /\ i' = 1
  /\ toDelete' = <<>>
  /\ seen' = {}
  /\ killedIn' = [e \in Ent |-> "none"]
  /\ deadAtBegin' = {}
  /\ reaped' = {}
  /\ owed' = {}
  /\ UNCHANGED <<plugins, didStart, initialized, pEnabled, renderer, camera,
                 animationLoopId, pending, due, ticksLeft, frameUpd, frameLate,
                 gotOnDestroy>>

\* ------------------------------------------------------ the math utilities
\* Math.abs
Abs(x) == IF x < 0 THEN 0 - x ELSE x

\* mutant: the threshold itself counts as close enough
approximatelyZero_Inclusive(number) == Abs(number) <= EPSILON

\* approximatelyZero: Math.abs(number) < EPSILON
approximatelyZero(number) == Abs(number) < EPSILON

\* approximatelyEqual: approximatelyZero(a - b)
approximatelyEqual(a, b) == approximatelyZero(a - b)

\* approximatelySphericalEqual: radius, phi and theta are approximately equal
approximatelySphericalEqual(a, b) ==
  approximatelyEqual(a[1], b[1]) /\ approximatelyEqual(a[2], b[2]) /\ approximatelyEqual(a[3], b[3])

\* approximatelyVector3Equal: x, y and z are approximately equal
approximatelyVector3Equal(a, b) ==
  approximatelyEqual(a[1], b[1]) /\ approximatelyEqual(a[2], b[2]) /\ approximatelyEqual(a[3], b[3])

\* no arguments: the scheduler's specifications do not call the math utilities
NoMath == [n |-> 0, a |-> <<0, 0, 0>>, b |-> <<0, 0, 0>>]

\* the utilities have not been called
NoResult == [done |-> FALSE, zero |-> FALSE, equal |-> FALSE, spherical |-> FALSE,
             vector3 |-> FALSE]

\* the four utilities are called with the arguments drawn
Evaluate ==
  /\ ~mathOut.done
  /\ mathOut' = [done |-> TRUE,
                 zero |-> approximatelyZero(mathIn.n),
                 equal |-> approximatelyEqual(mathIn.a[1], mathIn.b[1]),
                 spherical |-> approximatelySphericalEqual(mathIn.a, mathIn.b),
                 vector3 |-> approximatelyVector3Equal(mathIn.a, mathIn.b)]
  /\ UNCHANGED <<sched, heap, ghost, timer, pool, registered, input, isPaused, extrasLeft,
                 hostOps, components, compEntity, mathIn>>

\* ------------------------------------------------------ the specification
\* objects as their constructors leave them, none in the scene yet: all detached,
\* entity 3 a child of entity 1, or entity 3 below entity 1 through the plain object 2
Wired(links) == [n \in Node |-> IF n \in DOMAIN links THEN links[n] ELSE <<>>]

InitialChildren ==
  {Wired(<<>>), Wired(<<<<3>>>>), Wired(<<<<2>>, <<3>>>>)}

\* the isEnabled argument of the constructors: entity 1 takes the default
InitialEnabled == {en \in [Ent -> BOOLEAN] : en[1]}

Fresh ==
  /\ renderer = FALSE
  /\ camera = FALSE
  /\ animationLoopId = "undefined"
  /\ pending = 0
  /\ due = 0
  /\ entities = <<>>
  /\ plugins = <<>>
  /\ children \in InitialChildren
  /\ enabled \in InitialEnabled
  /\ didStart = [e \in Ent |-> FALSE]
  /\ isDead = [e \in Ent |-> FALSE]
  /\ initialized = [p \in Plug |-> FALSE]
  /\ pEnabled = [p \in Plug |-> TRUE]
  /\ pc = "idle"
  /\ i = 1
  /\ toDelete = <<>>
  /\ ev = NoEv
  /\ api = NoApi
  /\ seen = {}
  /\ startCount = [e \in Ent |-> 0]
  /\ frameUpd = [e \in Ent |-> 0]
  /\ frameLate = [e \in Ent |-> 0]
  /\ steady = {}
  /\ gone = {}
  /\ reaped = {}
  /\ killedIn = [e \in Ent |-> "none"]
  /\ deadAtBegin = {}
  /\ gotOnDestroy = {}
  /\ owed = {}
  /\ skipped = {}
  /\ loop = "never"
  /\ initCount = [p \in Plug |-> 0]
  /\ undisposed = {}
  /\ ctl = NoCtl
  /\ isPaused = FALSE
  /\ components = [e \in Ent |-> <<>>]
  /\ keyStates = [p \in Plug |-> [k \in Keys |-> "none"]]
  /\ listening = [p \in Plug |-> FALSE]
  /\ keyedAt = [p \in Plug |-> [k \in Keys |-> 0]]
  /\ padStates = [p \in Plug |-> [b \in Buttons |-> "none"]]
  /\ padDown = [b \in Buttons |-> FALSE]
  /\ touchIds = [p \in Plug |-> {}]
  /\ touching = {}
  /\ mouseCoord = [p \in Plug |-> 0]
  /\ mouseDelta = [p \in Plug |-> 0]
  /\ clock = 1
  /\ deltaTime = 1
  /\ registered = [n \in TypeNames |-> NoPlugin]

\* the program before any call; object 2 was made a child of entity 1 and entity 3 a
\* child of object 2
Init ==
  /\ Fresh
  /\ children = Wired(<<<<2>>, <<3>>>>)
  /\ pool = 1..MainPool
  /\ ticksLeft = MaxTicks
  /\ callsLeft = MaxCalls
  /\ controlsLeft = MaxControls
  /\ extrasLeft = 0
  /\ hostOps = {}
  /\ compEntity = [k \in Comp |-> NoEntity]
  /\ mathIn = NoMath
  /\ mathOut = NoResult
  /\ mousePos = 1

\* the same program, explored over more ticks with fewer calls
InitFrames ==
  /\ Fresh
  /\ pool = 1..MainPool
  /\ ticksLeft = FrameTicks
  /\ callsLeft = FrameCalls
  /\ controlsLeft = FrameControls
  /\ extrasLeft = 0
  /\ hostOps = {}
  /\ compEntity = [k \in Comp |-> NoEntity]
  /\ mathIn = NoMath
  /\ mathOut = NoResult
  /\ mousePos = 1

\* the same program, explored over longer sequences of control calls
InitHost ==
  /\ Fresh
  /\ pool = 1..MainPool
  /\ ticksLeft = HostTicks
  /\ callsLeft = HostCalls
  /\ controlsLeft = HostControls
  /\ extrasLeft = 0
  /\ hostOps = {}
  /\ compEntity = [k \in Comp |-> NoEntity]
  /\ mathIn = NoMath
  /\ mathOut = NoResult
  /\ mousePos = 1

\* the same program with several plugin instances, two of them of one class
InitPlugins ==
  /\ Fresh
  /\ pool = 1..PluginPool
  /\ ticksLeft = PluginTicks
  /\ callsLeft = PluginCalls
  /\ controlsLeft = PluginControls
  /\ extrasLeft = 0
  /\ hostOps = {}
  /\ compEntity = [k \in Comp |-> NoEntity]
  /\ mathIn = NoMath
  /\ mathOut = NoResult
  /\ mousePos = 1

\* the same program, with the host adding to the scene root, adding components and
\* calling destroy() on dead entities; entity 3 was made a child of entity 1 and both
\* are enabled
InitEntity ==
  /\ Fresh
  /\ pool = 1..MainPool
  /\ ticksLeft = EntityTicks
  /\ callsLeft = EntityCalls
  /\ controlsLeft = EntityControls
  /\ extrasLeft = EntityExtras
  /\ hostOps = {"sceneAdd", "addComponents", "destroy"}
  /\ compEntity = [k \in Comp |-> NoEntity]
  /\ mathIn = NoMath
  /\ mathOut = NoResult
  /\ mousePos = 1
  /\ children = Wired(<<<<3>>>>)
  /\ enabled = [e \in Ent |-> TRUE]

\* the same program with an Input plugin and key events; the objects are detached
\* and enabled
InitInput ==
  /\ Fresh
  /\ pool = 1..MainPool
  /\ ticksLeft = InputTicks
  /\ callsLeft = InputCalls
  /\ controlsLeft = InputControls
  /\ extrasLeft = InputExtras
  /\ hostOps = {"key", "pad", "touch", "mouse"}
  /\ compEntity = [k \in Comp |-> NoEntity]
  /\ mathIn = NoMath
  /\ mathOut = NoResult
  /\ mousePos = 1
  /\ children = Wired(<<>>)
  /\ enabled = [e \in Ent |-> TRUE]

\* the same program with a host that has control calls enough to dispose of a running
\* program and to set it up and start it again
InitReuse ==
  /\ Fresh
  /\ pool = 1..MainPool
  /\ ticksLeft = ReuseTicks
  /\ callsLeft = ReuseCalls
  /\ controlsLeft = ReuseControls
  /\ extrasLeft = 0
  /\ hostOps = {}
  /\ compEntity = [k \in Comp |-> NoEntity]
  /\ mathIn = NoMath
  /\ mathOut = NoResult
  /\ mousePos = 1
  /\ children = Wired(<<>>)
  /\ enabled = [e \in Ent |-> TRUE]

\* the same program with user code that makes calls enough to instantiate an entity,
\* destroy it and, once it is reaped, instantiate again
InitReap ==
  /\ Fresh
  /\ pool = 1..MainPool
  /\ ticksLeft = ReapTicks
  /\ callsLeft = ReapCalls
  /\ controlsLeft = ReapControls
  /\ extrasLeft = 0
  /\ hostOps = {}
  /\ compEntity = [k \in Comp |-> NoEntity]
  /\ mathIn = NoMath
  /\ mathOut = NoResult
  /\ mousePos = 1
  /\ children = Wired(<<>>)
  /\ enabled = [e \in Ent |-> TRUE]

\* the same program with a host that assigns isPaused
InitPaused ==
  /\ Fresh
  /\ pool = 1..MainPool
  /\ ticksLeft = PausedTicks
  /\ callsLeft = PausedCalls
  /\ controlsLeft = PausedControls
  /\ extrasLeft = MaxExtras
  /\ hostOps = {"isPaused"}
  /\ compEntity = [k \in Comp |-> NoEntity]
  /\ mathIn = NoMath
  /\ mathOut = NoResult
  /\ mousePos = 1
  /\ children = Wired(<<>>)
  /\ enabled = [e \in Ent |-> TRUE]

\* the same program with callbacks that may throw
InitThrow ==
  /\ Fresh
  /\ pool = 1..MainPool
  /\ ticksLeft = ThrowTicks
  /\ callsLeft = ThrowCalls
  /\ controlsLeft = ThrowControls
  /\ extrasLeft = 0
  /\ hostOps = {}
  /\ compEntity = [k \in Comp |-> NoEntity]
  /\ mathIn = NoMath
  /\ mathOut = NoResult
  /\ mousePos = 1
  /\ children = Wired(<<>>)
  /\ enabled = [e \in Ent |-> TRUE]

\* no scheduler activity: the math utilities are given a number between -1e-4 and
\* 1e-4 and two triples whose components are 5 plus or minus up to 1e-4
InitMath ==
  /\ Fresh
  /\ pool = {}
  /\ ticksLeft = 0
  /\ callsLeft = 0
  /\ controlsLeft = 0
  /\ extrasLeft = 0
  /\ hostOps = {}
  /\ compEntity = [k \in Comp |-> NoEntity]
  /\ mousePos = 1
  /\ children = Wired(<<>>)
  /\ enabled = [e \in Ent |-> TRUE]
  /\ mathIn \in [n : Offsets, a : {<<x, Base, Base>> : x \in Nums}, b : Nums \X Nums \X Nums]
  /\ mathOut = NoResult

Next ==
  \/ BeginFrame
  \/ FrameTick
  \/ PassDone
  \/ TickDone
  \/ PluginInitVisit
  \/ StartVisit
  \/ Reap
  \/ Render
  \/ PluginUpdateVisit
  \/ UpdateVisit
  \/ LateUpdateVisit
  \/ PluginLateUpdateVisit
  \/ ExternalCall
  \/ PluginEnable
  \/ AddPlugins
  \/ SetCamera
  \/ Start
  \/ Stop
  \/ Dispose
  \/ Initialize

Spec == Init /\ [][Next]_vars

SpecFrames == InitFrames /\ [][Next]_vars

SpecHost == InitHost /\ [][Next]_vars

SpecPlugins == InitPlugins /\ [][Next]_vars

\* the operations of Next and the other calls and events of the host
NextOther == Next \/ OtherCall

SpecEntity == InitEntity /\ [][NextOther]_vars

SpecInput == InitInput /\ [][NextOther]_vars

SpecPaused == InitPaused /\ [][NextOther]_vars

SpecReuse == InitReuse /\ [][Next]_vars

SpecReap == InitReap /\ [][Next]_vars

NextThrow == Next \/ Throw

SpecThrow == InitThrow /\ [][NextThrow]_vars

NextMath == Evaluate

SpecMath == InitMath /\ [][NextMath]_vars

\* ------------------------------------------------------------------ claims
Tracked == Range(entities)

\* the place of each kind of call in the order the claim gives
Rank(op) ==
  CASE op = "initialize" -> 1
    [] op = "onStart" -> 2
    [] op = "reap" -> 3
    [] op \in {"render", "error"} -> 4
    [] op = "update" -> 5
    [] op = "onUpdate" -> 6
    [] op = "onLateUpdate" -> 7
    [] op = "lateUpdate" -> 8
    [] OTHER -> 0

\* C1: within a tick no call of a pass is made once a call of a later pass has been
\* made (plugin initialize, onStart, reap, render, plugin update, onUpdate,
\* onLateUpdate, plugin lateUpdate), and reap and the render pass have both run
\* by the time the plugin lateUpdate pass is reached.
C1_PassOrder ==
  /\ ev.op # "none" => \A k \in seen : Rank(k) <= Rank(ev.op)
  /\ pc = "pluginLateUpdate" =>
       /\ "reap" \in seen
       /\ seen \cap {"render", "error"} # {}

\* a tick that made every kind of call, ending with a plugin's lateUpdate
C1_Witness ==
  /\ ev.op = "lateUpdate"
  /\ {"initialize", "onStart", "reap", "render", "update", "onUpdate", "onLateUpdate"}
       \subseteq seen

C3_NoUpdateWhenDead ==
  /\ ev.op \in {"onUpdate", "onLateUpdate"} => ~ev.dead
  /\ \A e \in Ent : killedIn[e] # "none" => isDead[e]

\* an update or late-update pass has just gone over an enabled, dead, tracked entity
\* that was destroyed earlier in the same tick, and made no call
C3_Witness ==
  /\ pc \in {"update", "lateUpdate"}
  /\ i > 1
  /\ i - 1 <= Len(entities)
  /\ isDead[entities[i - 1]]
  /\ enabled[entities[i - 1]]
  /\ killedIn[entities[i - 1]] \in {"startPassed", "pluginUpdate", "update"}
  /\ ev.op = "none"

\* C4: when the reap pass is over, no dead entity it worked through and no entity
\* anywhere below one is in the table; these entities stay out of the table and get
\* no onUpdate or onLateUpdate call until instantiateObject registers them again.
C4_ReapSubtree ==
  /\ pc = "render" => Below(children, toDelete) \cap Tracked = {}
  /\ gone \cap Tracked = {}
  /\ ev.op \in {"onUpdate", "onLateUpdate"} => ev.who \notin gone

\* the reap pass has just removed a dead entity together with a live entity below it,
\* one that is not a direct child
C4_Witness ==
  /\ pc = "render"
  /\ \E a \in Range(toDelete) : \E d \in reaped :
       /\ d # a
       /\ ~isDead[d]
       /\ d \in Subtree(children, a)
       /\ d \notin Range(children[a])

\* the entities destroy() was called on before this tick began, or in this tick
\* before the start pass went over them
DueForReap == {r \in Ent : isDead[r] /\ killedIn[r] \in {"none", "pluginInit", "start"}}

C6_GoneAfterNextReap ==
  /\ api.call.op = "destroy" => isDead[api.call.x]
  /\ pc = "render" => deadAtBegin \cap Tracked = {}

\* the reap pass has just removed a tracked entity that was dead when the tick began
C6_Witness ==
  /\ pc = "render"
  /\ deadAtBegin \cap reaped # {}

\* C7 as stated: every dead entity the reap pass removes has received onDestroy.
C7_OnDestroyAtReap ==
  pc = "render" => \A a \in reaped : isDead[a] => a \in gotOnDestroy

\* C8: onStart, onUpdate and onLateUpdate are called only on entities that are
\* enabled at the moment of the call; the enabled setter changes neither isDead nor
\* didStart; and when a start pass is over, every entity that was tracked, enabled
\* and unstarted when the pass began and stayed enabled has been started.
C8_Disabled ==
  /\ [](ev.op \in {"onStart", "onUpdate", "onLateUpdate"} => ev.en)
  /\ [](pc = "reap" => owed = {})
  /\ [][api'.call.op = "enable" =>
          /\ isDead' = isDead
          /\ \/ didStart' = didStart
             \/ ev'.op = "onStart" /\ didStart' = [didStart EXCEPT ![ev'.who] = TRUE]]_vars

\* onStart has just been called on an entity that an earlier start pass skipped
\* because it was disabled
C8_Witness ==
  /\ ev.op = "onStart"
  /\ ev.who \in skipped

\* C9 as stated: when a display frame is over, every entity that was tracked, enabled
\* and alive throughout it has received exactly one onUpdate and one onLateUpdate.
C9_OncePerFrame ==
  pc = "idle" /\ due = 0 =>
    \A e \in steady : frameUpd[e] = 1 /\ frameLate[e] = 1

\* C10: right after instantiateObject(object, parent) the result is the object, the
\* object (when an Entity) and every Entity in its subtree are in the table, and the
\* object's parent is the given parent, the scene root when none was given.
C10_Instantiate ==
  api.call.op = "instantiate" =>
    /\ api.ret = api.call.x
    /\ Subtree(children, api.call.x) \cap Ent \subseteq Tracked
    /\ Parents(children, api.call.x) =
         {IF api.call.pa = <<>> THEN Scene ELSE api.call.pa[1]}

\* a plain object with an entity below it has just been instantiated under an entity
C10_Witness ==
  /\ api.call.op = "instantiate"
  /\ ~IsEntity(api.call.x)
  /\ api.call.pa # <<>>
  /\ Subtree(children, api.call.x) \cap Ent # {}

\* C11: start() while the loop is running only warns: it runs no tick and requests
\* no further frame callback, so at most one requestAnimationFrame chain is alive
\* (one callback requested or due) at any time.
C11_StartWhileRunning ==
  /\ pending + due <= 1
  /\ ctl.warn = "alreadyStarted" => pc = "idle"

\* C12: after stop() has returned, and until start() is called again, no tick runs.
C12_StopHalts == loop = "stopped" => pc = "idle"

\* C13: a stop() call made while animationLoopId holds no request id (the loop
\* is not running) logs the "not running" warning and changes nothing.
C13_StopNotRunning ==
  [][ctl'.op = "stop" /\ ~Truthy(animationLoopId) =>
       /\ ctl'.warn = "notRunning"
       /\ UNCHANGED <<heap, sched>>]_vars

\* C14: dispose() leaves no frame callback requested, has called dispose() on every
\* plugin that was registered and onDestroy on every entity that was tracked, and
\* leaves both tables empty and the renderer and the camera null.
C14_Dispose ==
  [][ctl'.op = "dispose" =>
       /\ pending' = 0
       /\ animationLoopId' # "id"
       /\ ctl'.disposed = Range(plugins)
       /\ Range(entities) \subseteq gotOnDestroy'
       /\ entities' = <<>>
       /\ plugins' = <<>>
       /\ ~renderer'
       /\ ~camera']_vars

\* C15: a start() call made while the renderer or the camera is unset logs the
\* "initialize first" warning and runs and requests no tick; the renderer is set by
\* initialize() only, so this is the case before the first initialize() and from
\* dispose() to the next initialize().
C15_StartNeedsInitialize ==
  /\ [][ctl'.op = "start" /\ (~renderer \/ ~camera) =>
          /\ ctl'.warn = "notInitialized"
          /\ UNCHANGED <<heap, sched>>]_vars
  /\ [][~renderer /\ renderer' => ctl'.op = "initialize"]_vars
  /\ [](loop = "never" /\ controlsLeft = MaxControls => ~renderer /\ ~camera)
  /\ [](ctl.op = "dispose" => ~renderer /\ ~camera)

\* start() was refused after a dispose() that followed at least one tick
C15_Witness ==
  /\ ctl.op = "start"
  /\ ctl.warn = "notInitialized"
  /\ loop = "disposed"
  /\ ticksLeft < MaxTicks

\* C16: when initialize() has returned, the live-entity table and the plugin table
\* are empty, whatever state the loop was in.
C16_InitializeClears == ctl.op = "initialize" => entities = <<>> /\ plugins = <<>>

C18_UpdateRespectsEnabled == ev.op = "update" => ev.who \in Range(plugins) /\ ev.en

\* C19: every update() and lateUpdate() call is made on a plugin instance that has
\* received initialize() before.
C19_InitBeforeUpdate == ev.op \in {"update", "lateUpdate"} => initCount[ev.who] > 0

\* C20: every plugin initialize() call is made while the renderer and the camera
\* are set and the loop is started: start() was called, and neither stop() nor
\* dispose() since.
C20_InitializeWhileRunning == ev.op = "initialize" => loop = "started" /\ renderer /\ camera

\* C21: a plugin whose executionType is not Always is never in the plugin table, and
\* no tick calls initialize, update or lateUpdate on it.
C21_OnceNotRegistered ==
  /\ \A p \in Range(plugins) : executionType(p) = "Always"
  /\ ev.op \in {"initialize", "update", "lateUpdate"} => executionType(ev.who) = "Always"

\* C22: for every type name, getPluginByTypeName returns the plugin instance most
\* recently registered under that name since the table was last cleared, and null
\* when there is none.
C22_GetPlugin ==
  \A n \in TypeNames : getPluginByTypeName(plugins, n) = registered[n]

\* plugin 1 was registered and initialized, plugin 2 of the same class was registered
\* after it, and no plugin of the other class is registered
C22_Witness ==
  /\ initCount[1] > 0
  /\ getPluginByTypeName(plugins, TypeName(2)) = 2
  /\ getPluginByTypeName(plugins, TypeName(3)) = NoPlugin

C24_OneDeltaPerTick ==
  /\ [][IF pc = "idle" /\ pc' # "idle"
        THEN clock' = clock + 1 /\ deltaTime' = clock'
        ELSE UNCHANGED <<clock, deltaTime>>]_vars
  /\ [](ev.op \in {"onStart", "onUpdate", "onLateUpdate", "update", "lateUpdate"} =>
          ev.dt = deltaTime /\ ev.dt = clock)

\* the last pass of a second tick calls a plugin with that tick's sample
C24_Witness == ev.op = "lateUpdate" /\ ev.dt = 3 /\ "onStart" \in seen /\ "onLateUpdate" \in seen

\* C25 as stated: every lifecycle call that takes an isPaused argument is given the
\* scheduler's isPaused, the onDestroy calls included.
C25_PausedPassedToAll ==
  /\ ev.op \in {"onStart", "onUpdate", "onLateUpdate", "update", "lateUpdate"} =>
       ev.paused = isPaused
  /\ ctl.destroyed # {} => ctl.args.paused = isPaused

\* the keys of the plugin Map, in iteration order
Names(m) == [k \in 1..Len(m) |-> TypeName(m[k])]

\* key a comes before key b in the iteration order s
Before(s, a, b) == \E j, k \in 1..Len(s) : j < k /\ s[j] = a /\ s[k] = b

\* from iteration order s to iteration order t, the keys that stay keep their
\* relative order and every new key comes behind every key that stays
KeepsOrder(s, t) ==
  /\ \A a, b \in Range(s) \cap Range(t) : Before(s, a, b) => Before(t, a, b)
  /\ \A a \in Range(s) \cap Range(t) : \A b \in Range(t) \ Range(s) : Before(t, a, b)

\* C26 as stated: a plugin instance that addPlugins has just brought into the table
\* is visited after every plugin registered before it, so it is the last of the table.
C26_RegisteredLast ==
  [][ctl'.op = "addPlugins" =>
       \A p \in Range(plugins') \ Range(plugins) : plugins'[Len(plugins')] = p]_vars

\* C26: every pass visits its table from the first entry to the last, and the order
\* of a table is the order in which its keys (entity ids, plugin class names) were
\* first inserted since they were last out of it: a step keeps the relative order of
\* the keys that stay and puts new keys last, and addPlugins of an instance whose
\* class name is already in the table puts it in the place of the instance it replaces.
C26_InsertionOrder ==
  /\ [](ev.op \in {"onStart", "onUpdate", "onLateUpdate"} =>
          i > 1 /\ i - 1 <= Len(entities) /\ entities[i - 1] = ev.who)
  /\ [](ev.op \in {"initialize", "update", "lateUpdate"} =>
          i > 1 /\ i - 1 <= Len(plugins) /\ plugins[i - 1] = ev.who)
  /\ [][pc' = pc /\ pc # "idle" => i' = i + 1]_vars
  /\ [][pc' # pc /\ pc \in {"pluginInit", "start", "pluginUpdate", "update", "lateUpdate",
                              "pluginLateUpdate"} => i > Len(Table(pc))]_vars
  /\ [][KeepsOrder(entities, entities') /\ KeepsOrder(Names(plugins), Names(plugins'))]_vars
  /\ [][ctl'.op = "addPlugins" => Len(plugins') >= Len(plugins) /\
          \A k \in 1..Len(plugins) : TypeName(plugins'[k]) = TypeName(plugins[k])]_vars

\* the second instance of a class has taken the place of the first, which had been
\* initialized, and is visited before a plugin of another class
C26_Witness ==
  /\ plugins = <<2, 3>>
  /\ initCount[1] > 0
  /\ ev.op = "lateUpdate"
  /\ ev.who = 3
  /\ "update" \in seen

\* C27: add() called directly on the scene root logs an error and does nothing: the
\* object is not attached under the scene root and the entity table is not changed.
C27_SceneAddRejected ==
  [][ctl'.op = "sceneAdd" => ctl'.warn = "error" /\ UNCHANGED <<children, entities>>]_vars

\* C28: addComponents sets the entity reference of every component it adds to the
\* entity it was added to.
C28_ComponentEntitySet ==
  [][\A e \in Ent :
       Len(components'[e]) > Len(components[e]) =>
         compEntity'[components'[e][Len(components'[e])]] = e]_vars

\* C29: destroy() changes nothing but the isDead flag of its entity, which it sets
\* and which nothing clears again; called on an entity that is already dead it
\* leaves the whole state of the scheduler and of the entities as it was, so what
\* follows a second call is what follows the first.
C29_DestroyIdempotent ==
  /\ [][ctl'.op = "destroy" => isDead[ctl'.x] /\ UNCHANGED <<heap, sched, timer>>]_vars
  /\ [][pc = "idle" /\ api'.call.op = "destroy" =>
          /\ UNCHANGED <<entities, plugins, children, enabled, didStart, initialized, pEnabled,
                         sched, timer>>
          /\ isDead' = [isDead EXCEPT ![api'.call.x] = TRUE]]_vars
  /\ [][\A e \in Ent : isDead[e] => isDead'[e]]_vars

\* destroy() has just been called again on a dead entity that is still in the table
\* of a running loop
C29_Witness ==
  /\ ctl.op = "destroy"
  /\ isDead[ctl.x]
  /\ ctl.x \in Range(entities)
  /\ loop = "started"
  /\ pending > 0

\* C30: in the tick that follows a keydown event for key k, every entity onUpdate
\* callback observes getKeyPressed(k) = true, and in the ticks after it, false.
C30_PressedDuringNextTick ==
  ev.op = "onUpdate" =>
    \A p \in Range(plugins) : \A k \in Keys :
      IsInput(p) /\ listening[p] =>
        (<<p, k>> \in ev.pressed <=> keyedAt[p][k] # 0 /\ clock = keyedAt[p][k] + 1)

\* C31: getKeyHeld(k) is true only while the state of key k is Held: it is false
\* while the state is Pressed, and while it is Released or absent.
C31_HeldNotPressed ==
  \A p \in Plug : \A k \in Keys : getKeyHeld(keyStates[p], k) => keyStates[p][k] = "Held"

\* C32: whenever a poll (Input.update) finds a gamepad button not pressed whose
\* recorded state is Pressed or Held, the state becomes Released, and a poll that
\* finds it not pressed and recorded as Released removes it.
C32_ButtonReleased ==
  [][pc = "pluginUpdate" /\ ev'.op = "update" /\ IsInput(ev'.who) =>
       \A b \in Buttons :
         ~padDown[b] =>
           /\ padStates[ev'.who][b] \in {"Pressed", "Held"} =>
                padStates'[ev'.who][b] = "Released"
           /\ padStates[ev'.who][b] = "Released" => padStates'[ev'.who][b] = "none"]_vars

\* C33: the touch count of a listening Input plugin follows the active touches: a
\* touch that goes down or moves is counted, a touch that is lifted (pointerup) or
\* cancelled (pointercancel) is not counted any more, and nothing else changes it.
C33_TouchCount ==
  [][\A p \in Plug :
       listening[p] =>
         touchCount(touchIds'[p]) =
           touchCount(CASE ctl'.op \in {"pointerdown", "touchmove"} -> touchIds[p] \cup {ctl'.c}
                        [] ctl'.op \in {"pointerup", "pointercancel"} -> touchIds[p] \ {ctl'.c}
                        [] OTHER -> touchIds[p])]_vars

\* C34: the pointer delta of a listening Input plugin grows with every pointermove
\* by the displacement of the pointer on the page, is reset to zero by the plugin's
\* lateUpdate, and is changed by nothing else.
C34_DeltaIsDisplacement ==
  [][\A p \in Plug :
       listening[p] =>
         mouseDelta'[p] =
           (IF ctl'.op = "mousemove" THEN mouseDelta[p] + (mousePos' - mousePos)
            ELSE IF pc = "pluginLateUpdate" /\ ev'.op = "lateUpdate" /\ ev'.who = p THEN 0
            ELSE mouseDelta[p])]_vars

\* C35: approximatelyZero(n) is true exactly when |n| < 1e-5 and approximatelyEqual(a, b)
\* exactly when |a - b| < 1e-5, so for a difference of 1e-6 it is true and for 1e-4
\* false; approximatelySphericalEqual and approximatelyVector3Equal are true exactly
\* when every component differs by less than 1e-5.
C35_Threshold ==
  mathOut.done =>
    LET d(k) == mathIn.a[k] - mathIn.b[k]
        close(x) == x < 10 /\ 0 - x < 10
    IN /\ mathOut.zero <=> close(mathIn.n)
       /\ mathOut.equal <=> close(d(1))
       /\ d(1) \in {1, 0 - 1} => mathOut.equal
       /\ d(1) \in {100, 0 - 100} => ~mathOut.equal
       /\ mathOut.spherical <=> \A k \in 1..3 : close(d(k))
       /\ mathOut.vector3 <=> \A k \in 1..3 : close(d(k))

\* the first components differ by exactly 1e-5, the others by less: not equal
C35_Witness ==
  /\ mathOut.done
  /\ mathIn.a[1] - mathIn.b[1] = EPSILON
  /\ mathIn.b[2] - mathIn.a[2] = Near
  /\ ~mathOut.equal
  /\ ~mathOut.vector3
  /\ mathIn.n = 0 - Near
  /\ mathOut.zero

\* C36: every onUpdate and onLateUpdate call is made on an entity whose didStart is
\* true, so that has received onStart before.
C36_StartBeforeUpdate ==
  ev.op \in {"onUpdate", "onLateUpdate"} => ev.started /\ startCount[ev.who] > 0

\* C37: when dispose() has completed, no plugin instance that received initialize() is
\* left without a dispose() call after it, whatever addPlugins calls were made, also
\* those that register another instance of one type name.
C37_InitializedAreDisposed ==
  ctl.op = "dispose" => undisposed = {}

\* C38: a plugin instance that was given dispose() and registered again afterwards is
\* given initialize() again before its next update(): no instance is updated between
\* its dispose() and its next initialize().
C38_InitializedAgain ==
  ev.op = "update" /\ initialized[ev.who] => ev.who \in undisposed

\* the entities that have o somewhere below them in the object graph
Ancestors(ch, o) == {a \in Ent \ {o} : o \in Subtree(ch, a)}

\* C39: when an entity update pass begins, no entity of the table has an ancestor that
\* a reap pass removed from the table, whatever instantiateObject and destroy calls
\* were made, also with a reaped entity as the parent.
C39_NoReapedAncestor ==
  pc = "update" /\ i = 1 => \A e \in Range(entities) : Ancestors(children, e) \cap gone = {}

\* C40: when a plugin or entity callback has thrown, the tick is over without its
\* remaining passes, a frame callback is still requested (the request was made at the
\* top of the tick), and the next steps of the scheduler are the beginning of a tick;
\* every tick that ends without a throw has run its reap and render steps and has
\* called update and lateUpdate on every plugin of the table.
C40_ThrowEndsTickLoopGoesOn ==
  /\ [](ev.op = "throw" => pc = "idle" /\ animationLoopId = "id" /\ pending + due > 0)
  /\ [][ev.op = "throw" => pc' \in {"idle", "pluginInit"}]_vars
  /\ [][pc = "pluginLateUpdate" /\ pc' = "idle" /\ ev'.op # "throw"
        => /\ "reap" \in seen
           /\ seen \cap {"render", "error"} # {}
           /\ plugins # <<>> => "update" \in seen /\ ev.op = "lateUpdate"]_vars

\* a tick has run to its last pass after an earlier tick was cut short by the onStart
\* of the entity, which was then started by this tick
C40_Witness ==
  /\ ev.op = "lateUpdate"
  /\ \E e \in Range(entities) : startCount[e] = 2 /\ didStart[e]
  /\ {"onStart", "reap", "render", "update", "onUpdate", "onLateUpdate"} \subseteq seen
====
